---- MODULE Spec2Model ----
(***************************************************************************)
(* Planday: the weighted-interval-scheduling reward engine of              *)
(* "grpo for planday" (train_grpo notebook): the time model, the event     *)
(* extractor, the candidate scorer, and the dynamic programme that the     *)
(* dataset generator uses to compute optimal_score.                        *)
(*                                                                         *)
(* A text is a sequence of tokens: a tag ("<event>", "</name>", ...) or    *)
(* the maximal run of characters between two tags, classified as           *)
(* whitespace only ("ws"), exactly two digits, a colon and two digits      *)
(* ("time", kept as its four digits) or anything else ("txt").             *)
(***************************************************************************)
EXTENDS Integers, Sequences, FiniteSets, TLC

VARIABLES
    events,                  \* the row's reference events: <<name, start text, end text>>
    priority_events,         \* the row's priority names
    optimal_score,           \* the row's optimal score (0 until the DP has run)
    sorted_events,           \* DP: the reference events sorted by end time
    best,                    \* DP: best[i + 1] is the spec's best[i]
    pc,                      \* "sort", "dp", "ready" (no call running), "done" (score_reward at its return),
                             \* "format_done", "sorted_done" (the other two at theirs), "raised" (an exception left the call)
    content,                 \* the completion's text
    scheduled_events,        \* score_reward, sorted_events_reward: get_events(content)
    existing_events,         \* score_reward: the set of scheduled events found in the reference
    existing_events_minutes, \* score_reward: the retained events in minutes, after overlap removal
    overlapping_events,      \* score_reward: the events removed as overlapping
    score,                   \* score_reward: the weighted sum (0 when the candidate is rejected)
    reward,                  \* score_reward: the appended score, the fraction <<numerator, denominator>>
    format_score,            \* format_reward: the returned score
    scheduled_events_minutes,\* sorted_events_reward: the extracted events in minutes
    sorted_score,            \* sorted_events_reward: the appended score
    samples_logged,          \* completion_samples.txt has been written to
    selected,                \* DP: the events recovered so far, in chronological order
    cursor,                  \* DP: the i at which the recovery stands
    minute_count,            \* time model: a count of minutes
    time_text                \* time model: a time text, as its four digits

vars == <<events, priority_events, optimal_score, sorted_events, best, pc, content,
          scheduled_events, existing_events, existing_events_minutes,
          overlapping_events, score, reward, format_score,
          scheduled_events_minutes, sorted_score, samples_logged,
          selected, cursor, minute_count, time_text>>

row == <<events, priority_events>>
solution == <<selected, cursor>>
clock == <<minute_count, time_text>>
locals == <<content, scheduled_events, existing_events, existing_events_minutes,
            overlapping_events, score, reward, format_score,
            scheduled_events_minutes, sorted_score>>

----------------------------------------------------------------------------
(* Bounds *)

MaxRef == 3        \* reference events of a row that is scored
MaxCand == 3       \* event blocks of a candidate text
MaxDPEvents == 3   \* reference events of a row given to the DP alone
MaxBlocks == 2     \* event blocks of a completion whose layout departs from the prompt's
MaxPromptBlocks == 3 \* event blocks, well-formed or not, of a completion in the prompt's layout

Names == {"A", "B"}
GridMinutes == {600, 660, 720, 780}

----------------------------------------------------------------------------
(* Time model *)

\* mutant: the hours of a twelve-hour clock
minutes_to_time_twelve(minutes) ==
    << ((minutes \div 60) % 12) \div 10, ((minutes \div 60) % 12) % 10,
       (minutes % 60) \div 10, (minutes % 60) % 10 >>

minutes_to_time(minutes) ==
    << (minutes \div 60) \div 10, (minutes \div 60) % 10,
       (minutes % 60) \div 10, (minutes % 60) % 10 >>

\* mutant: the hours counted as hundreds
time_to_minutes_decimal(time_str) ==
    (time_str[1] * 10 + time_str[2]) * 100 + time_str[3] * 10 + time_str[4]

time_to_minutes(time_str) ==
    LET hours == time_str[1] * 10 + time_str[2]
        mins  == time_str[3] * 10 + time_str[4]
    IN  hours * 60 + mins

----------------------------------------------------------------------------
(* Texts *)

Tag(s) == [t |-> "tag", v |-> s]
Ws == [t |-> "ws", v |-> "\n"]
Txt(s) == [t |-> "txt", v |-> s]
TimeTok(d) == [t |-> "time", v |-> d]

IsTag(tok, s) == tok.t = "tag" /\ tok.v = s

\* the prompt's layout of one event
EventBlock(ev) ==
    << Tag("<event>"), Ws, Tag("<name>"), Txt(ev[1]), Tag("</name>"), Ws,
       Tag("<start>"), TimeTok(ev[2]), Tag("</start>"), Ws,
       Tag("<end>"), TimeTok(ev[3]), Tag("</end>"), Ws, Tag("</event>"), Ws >>

RECURSIVE Blocks(_)
Blocks(evs) ==
    IF evs = <<>> THEN <<>> ELSE EventBlock(Head(evs)) \o Blocks(Tail(evs))

\* the prompt's layout of a completion listing evs
ScheduleText(evs) ==
    << Tag("<think>"), Txt("reasoning"), Tag("</think>"), Ws, Tag("<schedule>"), Ws >>
        \o Blocks(evs) \o << Tag("</schedule>") >>

\* what a completion may put where the prompt has a line break
Fill(f) ==
    IF f = "ws" THEN << Ws >>
    ELSE IF f = "txt" THEN << Txt("and") >>
    ELSE <<>>

\* one event as a completion may write it
WrittenBlock(kind, ev) ==
    LET name  == << Tag("<name>"), Txt(ev[1]), Tag("</name>") >>
        start == << Tag("<start>"), TimeTok(ev[2]), Tag("</start>") >>
        end   == << Tag("<end>"), TimeTok(ev[3]), Tag("</end>") >>
        open  == << Tag("<event>") >>
        close == << Tag("</event>") >>
        nl    == << Ws >>
    IN  CASE kind = "prompt" ->
                 open \o nl \o name \o nl \o start \o nl \o end \o nl \o close
          [] kind = "compact" ->
                 open \o name \o start \o end \o close
          [] kind = "junk" ->
                 open \o nl \o name \o Fill("txt") \o start \o nl \o end \o nl \o close
          [] kind = "unclosed" ->
                 open \o nl \o name \o nl \o start \o nl \o end
          [] kind = "untagged" ->
                 open \o << Txt(ev[1]), Tag("</name>") >> \o nl \o start \o nl \o end
                      \o nl \o close
          [] kind = "misordered" ->
                 open \o nl \o start \o nl \o name \o nl \o end \o nl \o close
          [] kind = "wordy" ->
                 open \o nl \o name \o nl
                      \o << Tag("<start>"), Txt("ten"), Tag("</start>") >>
                      \o nl \o end \o nl \o close

RECURSIVE WrittenBlocks(_, _)
WrittenBlocks(blocks, sep) ==
    IF blocks = <<>> THEN <<>>
    ELSE WrittenBlock(Head(blocks)[1], Head(blocks)[2]) \o Fill(sep)
             \o WrittenBlocks(Tail(blocks), sep)

\* a completion: the think block, the schedule block and what lies around them
Render(layout, blocks) ==
    IF layout.blank THEN <<>>
    ELSE Fill(layout.lead)
        \o << Tag("<think>") >>
        \o (IF layout.think = "empty" THEN <<>> ELSE << Txt("reasoning") >>)
        \o (IF layout.think = "open" THEN <<>>
            ELSE << Tag("</think>") >> \o Fill(layout.gap))
        \o << Tag("<schedule>") >> \o Fill(layout.sep)
        \o WrittenBlocks(blocks, layout.sep)
        \o (IF layout.close THEN << Tag("</schedule>") >> ELSE <<>>)

----------------------------------------------------------------------------
(* Grammar validator *)

\* the first position from i on that holds the tag, Len(s) + 1 when none does
FirstTag(s, i, tag) ==
    LET first[j \in i..(Len(s) + 1)] ==
            IF j > Len(s) THEN j
            ELSE IF IsTag(s[j], tag) THEN j ELSE first[j + 1]
    IN  IF i > Len(s) THEN Len(s) + 1 ELSE first[i]

\* the first position from i on that holds open, \d{2}:\d{2} and close in a row
FirstTimed(s, i, open, close) ==
    LET first[j \in i..(Len(s) + 1)] ==
            IF j + 2 > Len(s) THEN Len(s) + 1
            ELSE IF /\ IsTag(s[j], open)
                    /\ s[j + 1].t = "time"
                    /\ IsTag(s[j + 2], close)
                 THEN j ELSE first[j + 1]
    IN  IF i > Len(s) THEN Len(s) + 1 ELSE first[i]

\* overall_regex.match(s): the pattern is tried at the start of s only and need
\* not reach its end.  With DOTALL a ".*" takes any characters, tags included,
\* so the pattern matches when its literals occur in this order; taking the
\* first occurrence of each loses no match, and one repetition of the event
\* group followed by ".*" covers every further one.
overall_regex(s) ==
    LET pThink      == FirstTag(s, 3, "</think>")
        pSchedule   == FirstTag(s, pThink + 1, "<schedule>")
        pEvent      == FirstTag(s, pSchedule + 1, "<event>")
        pName       == FirstTag(s, pEvent + 1, "<name>")
        pNameClose  == FirstTag(s, pName + 2, "</name>")
        pStart      == FirstTimed(s, pNameClose + 1, "<start>", "</start>")
        pEnd        == FirstTimed(s, pStart + 3, "<end>", "</end>")
        pEventClose == FirstTag(s, pEnd + 3, "</event>")
        pClose      == FirstTag(s, pEventClose + 1, "</schedule>")
    IN  /\ Len(s) >= 1
        /\ IsTag(s[1], "<think>")
        /\ pClose <= Len(s)

format_reward(response) == IF ~overall_regex(response) THEN 0 ELSE 10

----------------------------------------------------------------------------
(* Interval extractor *)

\* \s* at position i: the position after an optional whitespace run
SkipWs(s, i) == IF i <= Len(s) /\ s[i].t = "ws" THEN i + 1 ELSE i

\* capture_regex tried at position i: <<>> when it does not match there, else
\* <<the position after the match, <<group 1, group 2, group 3>>>>
capture_regex(s, i) ==
    LET pName  == SkipWs(s, i + 1)
        pStart == SkipWs(s, pName + 3)
        pEnd   == SkipWs(s, pStart + 3)
        pClose == SkipWs(s, pEnd + 3)
    IN  IF /\ IsTag(s[i], "<event>")
           /\ pClose <= Len(s)
           /\ IsTag(s[pName], "<name>")
           /\ s[pName + 1].t # "tag"
           /\ IsTag(s[pName + 2], "</name>")
           /\ IsTag(s[pStart], "<start>")
           /\ s[pStart + 1].t = "time"
           /\ IsTag(s[pStart + 2], "</start>")
           /\ IsTag(s[pEnd], "<end>")
           /\ s[pEnd + 1].t = "time"
           /\ IsTag(s[pEnd + 2], "</end>")
           /\ IsTag(s[pClose], "</event>")
        THEN << pClose + 1, << s[pName + 1].v, s[pStart + 1].v, s[pEnd + 1].v >> >>
        ELSE <<>>

\* finditer: leftmost matches, each search resuming where the last match ended
\* mutant: the search gives up at the first <event> that does not match
get_events_halting(text) ==
    LET from[i \in 1..(Len(text) + 1)] ==
            IF i > Len(text) THEN <<>>
            ELSE LET m == capture_regex(text, i)
                 IN  IF m = <<>>
                     THEN IF IsTag(text[i], "<event>") THEN <<>> ELSE from[i + 1]
                     ELSE << m[2] >> \o from[m[1]]
    IN  from[1]

\* mutant: nothing is extracted from a text the overall pattern rejects
get_events_validated(text) ==
    LET from[i \in 1..(Len(text) + 1)] ==
            IF i > Len(text) THEN <<>>
            ELSE LET m == capture_regex(text, i)
                 IN  IF m = <<>> THEN from[i + 1]
                     ELSE << m[2] >> \o from[m[1]]
    IN  IF ~overall_regex(text) THEN <<>> ELSE from[1]

get_events(text) ==
    LET from[i \in 1..(Len(text) + 1)] ==
            IF i > Len(text) THEN <<>>
            ELSE LET m == capture_regex(text, i)
                 IN  IF m = <<>> THEN from[i + 1]
                     ELSE << m[2] >> \o from[m[1]]
    IN  from[1]

----------------------------------------------------------------------------
(* Optimal scheduler: the dynamic programme behind the row's optimal_score *)

duration(a, b) == b - a

weight(e, priorities) ==
    IF e[1] \in priorities
    THEN 2 * duration(time_to_minutes(e[2]), time_to_minutes(e[3]))
    ELSE duration(time_to_minutes(e[2]), time_to_minutes(e[3]))

\* e placed behind every event that ends no later: a stable insertion
InsertByEnd(seq, e) ==
    LET k == Cardinality({j \in DOMAIN seq :
                 time_to_minutes(seq[j][3]) <= time_to_minutes(e[3])})
    IN  SubSeq(seq, 1, k) \o << e >> \o SubSeq(seq, k + 1, Len(seq))

RECURSIVE StableSortByEnd(_)
StableSortByEnd(seq) ==
    IF seq = <<>> THEN <<>>
    ELSE InsertByEnd(StableSortByEnd(SubSeq(seq, 1, Len(seq) - 1)), seq[Len(seq)])

\* mutant: an event ending exactly at e_i.start counted as conflicting
p_strict(sorted, i) ==
    Cardinality({j \in 1..(i - 1) :
        time_to_minutes(sorted[j][3]) < time_to_minutes(sorted[i][2])})

\* the number of events among the first i - 1 that end at or before e_i.start
p(sorted, i) ==
    Cardinality({j \in 1..(i - 1) :
        time_to_minutes(sorted[j][3]) <= time_to_minutes(sorted[i][2])})

Max(a, b) == IF a >= b THEN a ELSE b

\* best[i] from best[0..i-1]; b[k + 1] holds best[k]
BestNext(sorted, priorities, b, i) ==
    Max(b[i], weight(sorted[i], priorities) + b[p(sorted, i) + 1])

\* the recovery may pass over e_i: best[i] = best[i - 1]
Skipped(b, i) == b[i + 1] = b[i]

\* the recovery may choose e_i: best[i] = weight(e_i) + best[p(i)]
Taken(sorted, priorities, b, i) ==
    b[i + 1] = weight(sorted[i], priorities) + b[p(sorted, i) + 1]

\* mutant: the recovery goes on from the event before the chosen one
BackPointer_previous(sorted, i) == i - 1

\* where the recovery goes on once e_i is chosen: the back-pointer of i
BackPointer(sorted, i) == p(sorted, i)

\* mutant: no reference set counts as empty
EmptyInput_never(reference) == FALSE

\* EmptyInputError is raised for this reference set
EmptyInput(reference) == reference = <<>>

----------------------------------------------------------------------------
(* Candidate scorer *)

\* mutant: membership by name alone
InValidEvents_byName(ev, valid_events) ==
    \E i \in DOMAIN valid_events : valid_events[i][1] = ev[1]

\* [ev[0], ev[1], ev[2]] in valid_events
InValidEvents(ev, valid_events) ==
    \E i \in DOMAIN valid_events : valid_events[i] = << ev[1], ev[2], ev[3] >>

ExistingEvents(scheduled, valid_events) ==
    { scheduled[k] : k \in { k \in DOMAIN scheduled :
                                 InValidEvents(scheduled[k], valid_events) } }

\* mutant: nonexistent events are dropped without penalty
Rejected_lenient(existing, scheduled) == Cardinality(existing) < 2

\* mutant: a single event is a schedule
Rejected_one(existing, scheduled) ==
    Cardinality(existing) < Len(scheduled) \/ Cardinality(existing) < 1

\* mutant: a listing that is not in the order of its start times is rejected too
Rejected_unsorted(existing, scheduled) ==
    \/ Cardinality(existing) < Len(scheduled)
    \/ Cardinality(existing) < 2
    \/ \E k \in 1..(Len(scheduled) - 1) :
          time_to_minutes(scheduled[k][2]) >= time_to_minutes(scheduled[k + 1][2])

\* mutant: the existing events are counted against the distinct extracted ones
Rejected_distinct(existing, scheduled) ==
    \/ Cardinality(existing) < Cardinality({ scheduled[k] : k \in DOMAIN scheduled })
    \/ Cardinality(existing) < 2

\* the candidate is scored 0.0 without looking further
Rejected(existing, scheduled) ==
    Cardinality(existing) < Len(scheduled) \/ Cardinality(existing) < 2

ToMinutes(ev) == << ev[1], time_to_minutes(ev[2]), time_to_minutes(ev[3]) >>

\* the orders in which a set can be iterated
Orderings(S) ==
    { f \in [1..Cardinality(S) -> S] :
        \A j, k \in 1..Cardinality(S) : j # k => f[j] # f[k] }

\* mutant: no pair overlaps
Overlap_never(a, b) == FALSE

Overlap(a, b) == a[2] <= b[3] /\ a[3] >= b[2]

\* mutant: of an overlapping pair only the later one is recorded
OverlappingEvents_later(list) ==
    { list[k] : k \in { k \in DOMAIN list :
        \E j \in DOMAIN list : j < k /\ Overlap(list[j], list[k]) } }

\* mutant: the set is created once, before the loop over the completions
FreshOverlapping_kept(previous) == previous

\* overlapping_events = set(), at the head of every iteration's pair loop
FreshOverlapping(previous) == {}

OverlappingEvents(list) ==
    { list[x] : x \in { x \in DOMAIN list :
        \E j, k \in DOMAIN list :
            j < k /\ Overlap(list[j], list[k]) /\ x \in {j, k} } }

RemoveOverlapping(list, overlapping) ==
    SelectSeq(list, LAMBDA ev : ev \notin overlapping)

\* mutant: priorities are ignored
EventWeight_flat(ev, priorities) == ev[3] - ev[2]

EventWeight(ev, priorities) ==
    IF ev[1] \in priorities THEN 2 * (ev[3] - ev[2]) ELSE ev[3] - ev[2]

RECURSIVE SumWeights(_, _)
SumWeights(list, priorities) ==
    IF list = <<>> THEN 0
    ELSE EventWeight(Head(list), priorities) + SumWeights(Tail(list), priorities)

\* mutant: the ratio taken the other way round
ZeroDivision_inverted(sc, opt_score) == sc = 0

\* score / opt_score raises ZeroDivisionError
ZeroDivision(sc, opt_score) == opt_score = 0

\* mutant: the ratio scaled to a percentage
Reward_percent(sc, opt_score) == << sc * 100, opt_score >>

\* (score / opt_score) * 70, kept exact
Reward(sc, opt_score) == << sc * 70, opt_score >>

\* score_reward's weighted sum for one completion: one value for each order in
\* which the set of existing events can be iterated
WeightedScores(text, valid_events, priorities) ==
    LET scheduled == get_events(text)
        existing  == ExistingEvents(scheduled, valid_events)
    IN  IF Rejected(existing, scheduled) THEN { 0 }
        ELSE { LET mins == [k \in DOMAIN order |-> ToMinutes(order[k])]
               IN  SumWeights(RemoveOverlapping(mins, OverlappingEvents(mins)),
                              priorities) : order \in Orderings(existing) }

----------------------------------------------------------------------------
(* Sortedness check *)

\* mutant: each event must also end before the next one starts
Chronological_apart(mins) ==
    \A i \in 1..(Len(mins) - 1) :
        mins[i][2] < mins[i + 1][2] /\ mins[i][3] <= mins[i + 1][2]

\* mutant: equal start times pass
Chronological_lax(mins) ==
    \A i \in 1..(Len(mins) - 1) : mins[i][2] <= mins[i + 1][2]

\* all(start[i] < start[i + 1])
Chronological(mins) ==
    \A i \in 1..(Len(mins) - 1) : mins[i][2] < mins[i + 1][2]

sorted_events_reward(response) ==
    LET scheduled == get_events(response)
    IN  IF Len(scheduled) < 2 THEN 0
        ELSE IF Chronological([k \in DOMAIN scheduled |-> ToMinutes(scheduled[k])])
             THEN 20 ELSE 0

----------------------------------------------------------------------------
(* Inputs *)

Universe ==
    { << x[1], minutes_to_time(x[2]), minutes_to_time(x[3]) >> :
        x \in { y \in Names \X GridMinutes \X GridMinutes : y[3] > y[2] } }

SeqsUpTo(S, n) == UNION { [1..k -> S] : k \in 0..n }

NameRank(n) == IF n = "A" THEN 1 ELSE 2

\* the listing order of a scored row: by start, by end, by name
Key(ev) ==
    (time_to_minutes(ev[2]) * 10000) + (time_to_minutes(ev[3]) * 10) + NameRank(ev[1])

\* the events of the rows that are scored: one event for each interval of the
\* grid, named "A" when it starts at 10:00 and "B" otherwise
Pool == { ev \in Universe :
            ev[1] = (IF time_to_minutes(ev[2]) = 600 THEN "A" ELSE "B") }

ScoredRows ==
    { r \in SeqsUpTo(Pool, MaxRef) :
        /\ r # <<>>
        /\ \A j \in 1..(Len(r) - 1) : Key(r[j]) < Key(r[j + 1]) }

DPRows == SeqsUpTo(Universe, MaxDPEvents)

\* the dataset's first row, as the notebook prints it
HHMM(h, m) == << h \div 10, h % 10, m \div 10, m % 10 >>

Scenario1Events ==
    << << "Backstage tour VIP pass", HHMM(1, 6), HHMM(1, 21) >>,
       << "Sum 41 concert", HHMM(14, 57), HHMM(15, 27) >>,
       << "Korean BBQ food trucks", HHMM(16, 21), HHMM(17, 51) >>,
       << "Fireworks", HHMM(8, 48), HHMM(10, 48) >>,
       << "Jam session", HHMM(14, 31), HHMM(15, 31) >> >>

Scenario1Priority == { "Sum 41 concert" }

Scenario1Optimal == 285

\* events a model makes up: a reference event renamed, a reference event moved
Rename(ev) == << "Z", ev[2], ev[3] >>
Retime(ev) == << ev[1], minutes_to_time(0), ev[3] >>

Alphabet(valid_events) ==
    { valid_events[i] : i \in DOMAIN valid_events }
        \cup { Rename(valid_events[1]), Retime(valid_events[1]) }

\* the event lists a candidate text may hold
CandidateLists(valid_events) == SeqsUpTo(Alphabet(valid_events), MaxCand)

\* the row of the completions that need not follow the prompt: the first and
\* the third event lie apart, the first and the second meet, the second and
\* the third overlap
TextRows == { << << "A", minutes_to_time(600), minutes_to_time(660) >>,
                 << "B", minutes_to_time(660), minutes_to_time(780) >>,
                 << "B", minutes_to_time(720), minutes_to_time(780) >> >> }

\* events with times no clock shows: \d{2}:\d{2} takes any four digits
OffClock == { << "A", << 2, 4, 0, 0 >>, << 9, 9, 9, 9 >> >>,
              << "B", << 1, 2, 6, 0 >>, << 2, 4, 0, 0 >> >> }

BlockKinds == { "prompt", "compact", "junk", "unclosed", "untagged", "misordered", "wordy" }

\* the blocks a completion may hold: any event in a well-formed block, the
\* row's first event in a malformed one
WrittenOptions(valid_events) ==
    ({ "prompt" } \X ({ valid_events[i] : i \in DOMAIN valid_events } \cup OffClock))
    \cup ((BlockKinds \ { "prompt" }) \X { valid_events[1] })

PromptLayout ==
    [ lead |-> "none", think |-> "ok", gap |-> "ws", sep |-> "ws", close |-> TRUE,
      blank |-> FALSE ]

\* the prompt's layout, the layouts one step away from it, the empty completion
Layouts ==
    { PromptLayout,
      [ PromptLayout EXCEPT !.blank = TRUE ],
      [ PromptLayout EXCEPT !.lead = "ws" ],
      [ PromptLayout EXCEPT !.think = "empty" ],
      [ PromptLayout EXCEPT !.think = "open" ],
      [ PromptLayout EXCEPT !.gap = "none" ],
      [ PromptLayout EXCEPT !.gap = "txt" ],
      [ PromptLayout EXCEPT !.sep = "none" ],
      [ PromptLayout EXCEPT !.sep = "txt" ],
      [ PromptLayout EXCEPT !.close = FALSE ] }

\* the completions that need not follow the prompt: <<layout, blocks>>
Drafts(valid_events) ==
    (Layouts \X SeqsUpTo(WrittenOptions(valid_events), MaxBlocks))
    \cup ({ PromptLayout } \X SeqsUpTo(WrittenOptions(valid_events), MaxPromptBlocks))

----------------------------------------------------------------------------
(* The state machine *)

NoCall ==
    /\ content = <<>>
    /\ scheduled_events = <<>>
    /\ existing_events = {}
    /\ existing_events_minutes = <<>>
    /\ overlapping_events = {}
    /\ score = 0
    /\ reward = << 0, 1 >>
    /\ format_score = 0
    /\ scheduled_events_minutes = <<>>
    /\ sorted_score = 0

InitRow(rows, priorities) ==
    /\ events \in rows
    /\ priority_events \in priorities
    /\ optimal_score = 0
    /\ sorted_events = <<>>
    /\ best = <<>>
    /\ pc = "sort"
    /\ NoCall
    /\ samples_logged = FALSE
    /\ selected = <<>>
    /\ cursor = 0
    /\ minute_count = 0
    /\ time_text = <<>>

Init ==
    \/ InitRow(ScoredRows, SUBSET Names)
    \/ InitRow({ Scenario1Events }, { Scenario1Priority })

InitDP == InitRow(DPRows, SUBSET Names)

InitText == InitRow(TextRows, { { "A" } })

InitBatch == InitRow(TextRows, SUBSET Names)

\* a row whose best schedule is two events that lie apart: the first and the
\* second event conflict, the third lies apart from both
TotalRows == { << << "A", minutes_to_time(600), minutes_to_time(660) >>,
                  << "B", minutes_to_time(600), minutes_to_time(660) >>,
                  << "B", minutes_to_time(720), minutes_to_time(780) >> >> }

InitTotal == InitRow(TotalRows, { { "A" } })

\* the minutes of a day
ValidMinutes == 0..1439

\* the texts of the shape \d{2}:\d{2}, as their four digits
TimeTexts == [1..4 -> 0..9]

\* a count of minutes to format, or a time text to convert; no row is loaded
InitTime ==
    /\ events = <<>>
    /\ priority_events = {}
    /\ optimal_score = 0
    /\ sorted_events = <<>>
    /\ best = <<>>
    /\ NoCall
    /\ samples_logged = FALSE
    /\ selected = <<>>
    /\ cursor = 0
    /\ \/ /\ pc = "minutes"
          /\ minute_count \in ValidMinutes
          /\ time_text = <<>>
       \/ /\ pc = "text"
          /\ minute_count = 0
          /\ time_text \in TimeTexts

\* minutes_to_time applied to the count of minutes
MinutesToTime ==
    /\ pc = "minutes"
    /\ time_text' = minutes_to_time(minute_count)
    /\ pc' = "formatted"
    /\ UNCHANGED << row, solution, minute_count, optimal_score, sorted_events, best,
                    locals, samples_logged >>

\* time_to_minutes applied to the time text
TimeToMinutes ==
    /\ pc = "text"
    /\ minute_count' = time_to_minutes(time_text)
    /\ pc' = "converted"
    /\ UNCHANGED << row, solution, time_text, optimal_score, sorted_events, best,
                    locals, samples_logged >>

\* step 1: sort by end time, best[0] = 0; step 6: an empty reference set fails
SortEvents ==
    /\ pc = "sort"
    /\ IF EmptyInput(events)
       THEN /\ pc' = "failed"
            /\ UNCHANGED << sorted_events, best >>
       ELSE /\ sorted_events' = StableSortByEnd(events)
            /\ best' = << 0 >>
            /\ pc' = "dp"
    /\ UNCHANGED << row, solution, clock, optimal_score, locals, samples_logged >>

\* step 3: best[i] for the next i
DPStep ==
    /\ pc = "dp"
    /\ Len(best) <= Len(sorted_events)
    /\ best' = Append(best, BestNext(sorted_events, priority_events, best, Len(best)))
    /\ UNCHANGED << row, solution, clock, optimal_score, sorted_events, pc, locals, samples_logged >>

\* step 6: score = best[n]
DPFinish ==
    /\ pc = "dp"
    /\ Len(best) = Len(sorted_events) + 1
    /\ optimal_score' = best[Len(best)]
    /\ cursor' = Len(sorted_events)
    /\ pc' = "ready"
    /\ UNCHANGED << row, selected, clock, sorted_events, best, locals, samples_logged >>

\* steps 4 and 6: one step of the recovery of the chosen subset, from i = n
\* down; where passing over e_i and choosing it give the same best[i], either
\* may be recorded
Recover ==
    /\ pc \in { "ready", "recover" }
    /\ cursor > 0
    /\ \/ /\ Skipped(best, cursor)
          /\ cursor' = cursor - 1
          /\ selected' = selected
       \/ /\ Taken(sorted_events, priority_events, best, cursor)
          /\ cursor' = BackPointer(sorted_events, cursor)
          /\ selected' = << sorted_events[cursor] >> \o selected
    /\ pc' = IF cursor' > 0 THEN "recover" ELSE "recovered"
    /\ UNCHANGED << row, clock, optimal_score, sorted_events, best, locals,
                    samples_logged >>

\* score_reward on one completion of the row
score_reward(response) ==
    /\ content' = response
    /\ scheduled_events' = get_events(content')
    /\ existing_events' = ExistingEvents(scheduled_events', events)
    /\ IF Rejected(existing_events', scheduled_events')
       THEN \* continue: what an earlier iteration left in the names below stays
            /\ UNCHANGED << existing_events_minutes, overlapping_events, score >>
            /\ reward' = << 0, 1 >>
            /\ pc' = "done"
       ELSE /\ \E order \in Orderings(existing_events') :
                 LET mins == [k \in DOMAIN order |-> ToMinutes(order[k])]
                 IN  /\ overlapping_events' =
                            FreshOverlapping(overlapping_events) \cup OverlappingEvents(mins)
                     /\ existing_events_minutes' =
                            RemoveOverlapping(mins, overlapping_events')
            /\ score' = SumWeights(existing_events_minutes', priority_events)
            /\ IF ZeroDivision(score', optimal_score)
               THEN reward' = << 0, 1 >> /\ pc' = "raised"
               ELSE reward' = Reward(score', optimal_score) /\ pc' = "done"
    \* the sample log: written one time in ten when a score is positive
    /\ samples_logged' \in
           IF pc' = "done" /\ reward'[1] > 0 THEN { samples_logged, TRUE }
           ELSE { samples_logged }
    /\ UNCHANGED << row, solution, clock, optimal_score, sorted_events, best, format_score,
                    scheduled_events_minutes, sorted_score >>

\* score_reward on a completion laid out as the prompt asks
ScoreReward ==
    /\ pc = "ready"
    /\ \E listed \in CandidateLists(events) : score_reward(ScheduleText(listed))

\* score_reward on a completion that need not follow the prompt
ScoreRewardAny ==
    /\ pc = "ready"
    /\ \E draft \in Drafts(events) : score_reward(Render(draft[1], draft[2]))

FormatReward ==
    /\ pc = "ready"
    /\ \E draft \in Drafts(events) : content' = Render(draft[1], draft[2])
    /\ format_score' = format_reward(content')
    /\ pc' = "format_done"
    /\ UNCHANGED << row, solution, clock, optimal_score, sorted_events, best, scheduled_events,
                    existing_events, existing_events_minutes, overlapping_events,
                    score, reward, scheduled_events_minutes, sorted_score,
                    samples_logged >>

SortedEventsReward ==
    /\ pc = "ready"
    /\ \E draft \in Drafts(events) : content' = Render(draft[1], draft[2])
    /\ scheduled_events' = get_events(content')
    /\ IF Len(scheduled_events') < 2
       THEN /\ scheduled_events_minutes' = <<>>
            /\ sorted_score' = 0
       ELSE /\ scheduled_events_minutes' =
                   [k \in DOMAIN scheduled_events' |-> ToMinutes(scheduled_events'[k])]
            /\ sorted_score' = IF Chronological(scheduled_events_minutes') THEN 20 ELSE 0
    /\ pc' = "sorted_done"
    /\ UNCHANGED << row, solution, clock, optimal_score, sorted_events, best, existing_events,
                    existing_events_minutes, overlapping_events, score, reward,
                    format_score, samples_logged >>

\* the call returns: its locals are gone
Return ==
    /\ pc \in { "done", "format_done", "sorted_done" }
    /\ pc' = "ready"
    /\ content' = <<>>
    /\ scheduled_events' = <<>>
    /\ existing_events' = {}
    /\ existing_events_minutes' = <<>>
    /\ overlapping_events' = {}
    /\ score' = 0
    /\ reward' = << 0, 1 >>
    /\ format_score' = 0
    /\ scheduled_events_minutes' = <<>>
    /\ sorted_score' = 0
    /\ UNCHANGED << row, solution, clock, optimal_score, sorted_events, best, samples_logged >>

\* the loop of score_reward moves on to the next completion of the batch: the
\* names the head of an iteration binds anew are cleared, the names bound
\* after the test for rejection keep the values of this iteration
NextCompletion ==
    /\ pc = "done"
    /\ pc' = "ready"
    /\ content' = <<>>
    /\ scheduled_events' = <<>>
    /\ existing_events' = {}
    /\ reward' = << 0, 1 >>
    /\ UNCHANGED << row, solution, clock, optimal_score, sorted_events, best,
                    existing_events_minutes, overlapping_events, score,
                    format_score, scheduled_events_minutes, sorted_score,
                    samples_logged >>

NextDP == SortEvents \/ DPStep \/ DPFinish \/ Recover

Next == SortEvents \/ DPStep \/ DPFinish \/ ScoreReward \/ Return

NextText ==
    \/ SortEvents \/ DPStep \/ DPFinish
    \/ FormatReward \/ SortedEventsReward \/ ScoreRewardAny \/ Return

Spec == Init /\ [][Next]_vars

SpecDP == InitDP /\ [][NextDP]_vars

SpecText == InitText /\ [][NextText]_vars

NextBatch ==
    \/ SortEvents \/ DPStep \/ DPFinish
    \/ ScoreReward \/ NextCompletion \/ Return

SpecBatch == InitBatch /\ [][NextBatch]_vars

\* the three reward functions on the completions of a row
NextTotal ==
    \/ SortEvents \/ DPStep \/ DPFinish
    \/ FormatReward \/ SortedEventsReward \/ ScoreRewardAny \/ Return

SpecTotal == InitTotal /\ [][NextTotal]_vars

NextTime == MinutesToTime \/ TimeToMinutes

SpecTime == InitTime /\ [][NextTime]_vars

----------------------------------------------------------------------------
(* Properties.  The claims speak of events as the texts give them, so the   *)
(* definitions below read the times off the digits themselves.              *)

Reference == { events[i] : i \in DOMAIN events }
Listed == { scheduled_events[k] : k \in DOMAIN scheduled_events }
Kept == { existing_events_minutes[k] : k \in DOMAIN existing_events_minutes }

StartOf(ev) == 600 * ev[2][1] + 60 * ev[2][2] + 10 * ev[2][3] + ev[2][4]
EndOf(ev) == 600 * ev[3][1] + 60 * ev[3][2] + 10 * ev[3][3] + ev[3][4]

\* the intervals intersect with positive measure
Conflict(a, b) == StartOf(a) < EndOf(b) /\ StartOf(b) < EndOf(a)
Touching(a, b) == EndOf(a) = StartOf(b) \/ EndOf(b) = StartOf(a)

WeightOf(ev, priorities) ==
    IF ev[1] \in priorities THEN 2 * (EndOf(ev) - StartOf(ev))
    ELSE EndOf(ev) - StartOf(ev)

RECURSIVE SeqWeight(_, _)
SeqWeight(evs, priorities) ==
    IF evs = <<>> THEN 0
    ELSE WeightOf(Head(evs), priorities) + SeqWeight(Tail(evs), priorities)

\* the best total weight of a conflict-free choice among the events of evs
MaxIndependentWeight(evs, priorities) ==
    LET free == { S \in SUBSET (DOMAIN evs) :
                    \A j, k \in S : j # k => ~Conflict(evs[j], evs[k]) }
        total(S) == SeqWeight([k \in 1..Cardinality(S) |->
                        evs[CHOOSE j \in S : Cardinality({ x \in S : x < j }) = k - 1]],
                        priorities)
    IN  CHOOSE w \in { total(S) : S \in free } :
            \A S \in free : total(S) <= w

\* the candidate lists only reference events, each once, and at least two
ValidSchedule ==
    /\ pc = "done"
    /\ Len(scheduled_events) >= 2
    /\ Listed \subseteq Reference
    /\ Cardinality(Listed) = Len(scheduled_events)

Survives(ev) == << ev[1], StartOf(ev), EndOf(ev) >> \in Kept

InsertAt(seq, k, e) == SubSeq(seq, 1, k) \o << e >> \o SubSeq(seq, k + 1, Len(seq))

\* C1: once the DP has run on a row, the score it leaves (best[n]) is the maximum
\* total weight over all pairwise conflict-free subsets of the row's events.
C1_Optimality ==
    pc = "ready" => optimal_score = MaxIndependentWeight(events, priority_events)

\* a row of three events with a back-to-back pair and a conflicting pair, solved
C1_Witness ==
    /\ pc = "ready"
    /\ Len(events) >= 3
    /\ \E j, k \in DOMAIN events : EndOf(events[j]) = StartOf(events[k])
    /\ \E j, k \in DOMAIN events : j # k /\ Conflict(events[j], events[k])
    /\ \A k \in DOMAIN events : optimal_score > WeightOf(events[k], priority_events)

\* C2: a candidate of two reference events of which one ends at the minute the
\* other starts loses neither to overlap elimination and scores both weights.
C2_TouchingNotPenalized ==
    ( /\ ValidSchedule
      /\ Len(scheduled_events) = 2
      /\ EndOf(scheduled_events[1]) = StartOf(scheduled_events[2]) )
    => /\ overlapping_events = {}
       /\ score = WeightOf(scheduled_events[1], priority_events)
                    + WeightOf(scheduled_events[2], priority_events)

\* C3: a candidate with an extracted event that is no entry of the reference
\* scores 0, whatever else it lists.
C3_ZeroOnHallucination ==
    (pc = "done" /\ \E k \in DOMAIN scheduled_events : scheduled_events[k] \notin Reference)
    => score = 0 /\ reward[1] = 0

\* a made-up event beside two reference events that do not meet
C3_Witness ==
    /\ pc = "done"
    /\ \E k \in DOMAIN scheduled_events : scheduled_events[k] \notin Reference
    /\ \E a, b \in Listed \cap Reference :
          a # b /\ ~Conflict(a, b) /\ ~Touching(a, b)
    /\ score = 0

\* C4: of a valid schedule, an event counts if and only if it conflicts (with
\* positive measure) with no other listed event; two overlapping events score 0.
C4_BothRemovedIffConflict ==
    ValidSchedule =>
        /\ \A ev \in Listed :
              Survives(ev) <=> ~(\E other \in Listed \ { ev } : Conflict(ev, other))
        /\ ( Len(scheduled_events) = 2
               /\ Conflict(scheduled_events[1], scheduled_events[2]) ) => score = 0

\* C5: adding to the candidate a reference event it does not list, and that
\* conflicts with none it lists, never lowers the weighted score.
C5_Monotonic ==
    pc = "done" =>
        \A e \in Reference \ Listed :
            (\A c \in Listed : ~Conflict(e, c)) =>
                \A k \in 0..Len(scheduled_events) :
                    \A s \in WeightedScores(
                                ScheduleText(InsertAt(scheduled_events, k, e)),
                                events, priority_events) : s >= score

\* C6: the weighted score is never negative and never above the true optimum
\* of the row; the score reward stays within [0, 70].
C6_ScoreBounded ==
    pc = "done" =>
        /\ score >= 0
        /\ score > 0 => score <= MaxIndependentWeight(events, priority_events)
        /\ reward[2] > 0
        /\ reward[1] >= 0
        /\ reward[1] <= 70 * reward[2]

\* a schedule that scores, and scores less than the optimum
C6_Witness ==
    pc = "done" /\ score > 0 /\ score < optimal_score /\ reward[1] > 0

\* C7: with fewer than 2 reference events among the extracted ones the score
\* is 0, also when the one event is a reference event.
C7_FewerThanTwo ==
    (pc = "done" /\ Cardinality(Listed \cap Reference) < 2) => score = 0 /\ reward[1] = 0

\* one extracted event, and it is a reference event
C7_Witness ==
    /\ pc = "done"
    /\ Len(scheduled_events) = 1
    /\ scheduled_events[1] \in Reference
    /\ score = 0

\* C8: the membership filter keeps exactly the extracted events whose name,
\* start and end together equal those of one reference entry.
C8_ExactTripleMatch ==
    pc = "done" =>
        existing_events =
            { ev \in Listed : \E i \in DOMAIN events :
                  /\ events[i][1] = ev[1]
                  /\ events[i][2] = ev[2]
                  /\ events[i][3] = ev[3] }

\* a reference name with another start and reference times with another name,
\* both unmatched, beside a reference event that is kept
C8_Witness ==
    /\ pc = "done"
    /\ \E ev \in Listed \ existing_events : \E r \in Reference :
          r[1] = ev[1] /\ r[3] = ev[3] /\ r[2] # ev[2]
    /\ \E ev \in Listed \ existing_events : \E r \in Reference :
          r[1] # ev[1] /\ r[2] = ev[2] /\ r[3] = ev[3]
    /\ existing_events # {}

\* C9: when every event of a valid schedule survives overlap elimination, the
\* score is the sum of the durations in minutes, doubled for the priority
\* names, and the reward is 70 times that sum over the optimal score.
C9_WeightedSum ==
    (ValidSchedule /\ \A ev \in Listed : Survives(ev)) =>
        /\ score = SeqWeight(scheduled_events, priority_events)
        /\ reward[1] * optimal_score
              = 70 * SeqWeight(scheduled_events, priority_events) * reward[2]

\* a priority event and a plain event, both surviving
C9_Witness ==
    /\ ValidSchedule
    /\ \A ev \in Listed : Survives(ev)
    /\ \E a, b \in Listed : a[1] \in priority_events /\ b[1] \notin priority_events
    /\ score > 0

\* C10: on the dataset's first row the optimal score is 285 and the candidate
\* listing the Sum 41 concert, then the food trucks, scores 2*30 + 90 = 150.
C10_Scenario1 ==
    events = Scenario1Events =>
        /\ pc \in { "ready", "done" } => optimal_score = Scenario1Optimal
        /\ ( pc = "done"
               /\ scheduled_events = << Scenario1Events[2], Scenario1Events[3] >> )
             => score = 2 * 30 + 90

C10_Witness ==
    /\ events = Scenario1Events
    /\ pc = "done"
    /\ scheduled_events = << Scenario1Events[2], Scenario1Events[3] >>
    /\ score = 150

\* C11: what a call returns is settled by the completion and the row alone:
\* every order in which the set of existing events can be iterated gives the
\* score the call computed, whether or not a sample was logged by this call or
\* an earlier one, and the format and sorted scores are those of the text.
C11_Idempotent ==
    /\ pc = "done" =>
          /\ WeightedScores(content, events, priority_events) = { score }
          /\ reward[1] * optimal_score = 70 * score * reward[2]
    /\ pc = "format_done" => format_score = format_reward(content)
    /\ pc = "sorted_done" => sorted_score = sorted_events_reward(content)

\* two existing events that overlap, scored after a sample has been logged
C11_Witness ==
    /\ pc = "done"
    /\ samples_logged
    /\ Cardinality(existing_events) = 2
    /\ overlapping_events # {}

----------------------------------------------------------------------------
(* The grammar as the claims describe it, read off the tokens.  No completion *)
(* here has a name of whitespace alone, so whitespace tokens lie between     *)
(* elements only.                                                            *)

CountTag(s, tag) == Cardinality({ k \in DOMAIN s : s[k] = Tag(tag) })

Elements == { "think", "schedule", "event", "name", "start", "end" }
Opening(x) == "<" \o x \o ">"
Closing(x) == "</" \o x \o ">"

\* token k is the content of a think, name, start or end element
Enclosed(s, k) ==
    /\ 1 < k
    /\ k < Len(s)
    /\ \E x \in Elements \ { "schedule", "event" } :
          s[k - 1] = Tag(Opening(x)) /\ s[k + 1] = Tag(Closing(x))

\* the positions of the text that lies between elements and is not whitespace
Stray(s) == { k \in DOMAIN s : s[k].t \notin { "tag", "ws" } /\ ~Enclosed(s, k) }

\* the tags of s and the contents of its elements, in order
Squeeze(s) ==
    LET upTo[k \in 0..Len(s)] ==
            IF k = 0 THEN <<>>
            ELSE IF s[k].t = "tag" \/ (s[k].t # "ws" /\ Enclosed(s, k))
                 THEN Append(upTo[k - 1], s[k])
                 ELSE upTo[k - 1]
    IN  upTo[Len(s)]

\* q, squeezed, holds at i a block of name, start and end in that
\* order, the two times numeric
WellFormedAt(q, i) ==
    /\ i + 10 <= Len(q)
    /\ q[i] = Tag("<event>")
    /\ q[i + 1] = Tag("<name>")
    /\ q[i + 2].t # "tag"
    /\ q[i + 3] = Tag("</name>")
    /\ q[i + 4] = Tag("<start>")
    /\ q[i + 5].t = "time"
    /\ q[i + 6] = Tag("</start>")
    /\ q[i + 7] = Tag("<end>")
    /\ q[i + 8].t = "time"
    /\ q[i + 9] = Tag("</end>")
    /\ q[i + 10] = Tag("</event>")

EventBlocksAt(q) == { i \in DOMAIN q : q[i] = Tag("<event>") }

MalformedBlocksAt(q) == { i \in EventBlocksAt(q) : ~WellFormedAt(q, i) }

\* some opening tag has no closing tag of its own
UnclosedTag(s) ==
    \E x \in Elements : CountTag(s, Opening(x)) > CountTag(s, Closing(x))

\* C12: a text with no event block, a text whose only event block is
\* malformed, and a text with an opening tag that is never closed are all
\* format-invalid.
C12_InvalidTexts ==
    ( /\ pc = "format_done"
      /\ \/ EventBlocksAt(Squeeze(content)) = {}
         \/ /\ Cardinality(EventBlocksAt(Squeeze(content))) = 1
            /\ MalformedBlocksAt(Squeeze(content)) # {}
         \/ UnclosedTag(content) )
    => format_score = 0

\* C13: a format-valid text has no malformed event block.
C13_NoMalformedBlock ==
    (pc = "format_done" /\ format_score = 10)
    => MalformedBlocksAt(Squeeze(content)) = {}

\* the places between two elements of s, and the place before the first: k
\* stands for the gap after token k
Gaps(s) ==
    { k \in 0..(Len(s) - 1) :
        /\ s[k + 1].t = "tag"
        /\ k > 0 => s[k].t = "tag"
        /\ k > 0 => ~(\E x \in Elements :
                        s[k] = Tag(Opening(x)) /\ s[k + 1] = Tag(Closing(x))) }

RemoveAt(seq, k) == SubSeq(seq, 1, k - 1) \o SubSeq(seq, k + 1, Len(seq))

\* C14: a format-valid text has nothing but whitespace between its elements,
\* and taking a whitespace run away or putting one between two elements or
\* before the think block leaves the verdict as it was.
C14_WhitespaceOnly ==
    pc = "format_done" =>
        /\ format_score = 10 => Stray(content) = {}
        /\ \A k \in DOMAIN content :
              content[k].t = "ws" => format_reward(RemoveAt(content, k)) = format_score
        /\ \A k \in Gaps(content) :
              format_reward(InsertAt(content, k, Ws)) = format_score

\* the grammar of the format: a think block, then a schedule block of one or
\* more well-formed event blocks, and nothing but whitespace between them
WellFormedText(s) ==
    LET q == Squeeze(s)
    IN  /\ Stray(s) = {}
        /\ Len(q) >= 16
        /\ (Len(q) - 5) % 11 = 0
        /\ q[1] = Tag("<think>")
        /\ q[2].t # "tag"
        /\ q[3] = Tag("</think>")
        /\ q[4] = Tag("<schedule>")
        /\ q[Len(q)] = Tag("</schedule>")
        /\ \A j \in 0..(((Len(q) - 5) \div 11) - 1) : WellFormedAt(q, 5 + 11 * j)

\* the text lacks </schedule> and is well-formed once it is put at the end
LacksScheduleClose(s) ==
    /\ CountTag(s, "</schedule>") = 0
    /\ WellFormedText(Append(s, Tag("</schedule>")))

\* C15: a text that lacks only the closing schedule tag is format-invalid,
\* and its score is the score of the text with the tag in place, positive when
\* its blocks are two or more distinct reference events that do not conflict.
C15_Scenario2 ==
    /\ (pc = "format_done" /\ LacksScheduleClose(content)) => format_score = 0
    /\ (pc = "done" /\ LacksScheduleClose(content)) =>
          /\ WeightedScores(Append(content, Tag("</schedule>")),
                            events, priority_events) = { score }
          /\ ( /\ ValidSchedule
               /\ \A a, b \in Listed : a # b => ~Conflict(a, b) ) => score > 0

Unspaced(s) == SelectSeq(s, LAMBDA tok : tok.t # "ws")

\* the well-formed blocks of s as triples, in text order: a block is
\* well-formed when its tags are all there, in order, with nothing but
\* whitespace between them and two numeric times
TriplesOf(s) ==
    LET q == Unspaced(s)
        at == { i \in DOMAIN q : WellFormedAt(q, i) }
        nth(j) == CHOOSE i \in at : Cardinality({ x \in at : x < i }) = j - 1
    IN  [ j \in 1..Cardinality(at) |->
            << q[nth(j) + 2].v, q[nth(j) + 5].v, q[nth(j) + 8].v >> ]

Extracted == pc \in { "done", "sorted_done" }

\* C16: the extractor returns the triples of the well-formed event blocks, one
\* for each, in text order, whatever malformed blocks stand before, between
\* or after them; with no well-formed block it returns the empty sequence.
C16_ExtractsWellFormed ==
    Extracted => scheduled_events = TriplesOf(content)

\* a malformed block between two well-formed ones, both extracted
C16_Witness ==
    /\ pc = "sorted_done"
    /\ Len(scheduled_events) = 2
    /\ LET q == Unspaced(content)
       IN  \E i, j, k \in EventBlocksAt(q) :
              /\ i < j
              /\ j < k
              /\ WellFormedAt(q, i)
              /\ ~WellFormedAt(q, j)
              /\ WellFormedAt(q, k)

\* the triples of the event blocks that the validator's event group matches
\* each on its own, from its <event> to its </event>
ValidatorBlocks(s) ==
    { << s[b[1] + 1].v, s[b[2] + 1].v, s[b[3] + 1].v >> :
        b \in { << FirstTag(s, i + 1, "<name>"),
                   FirstTimed(s, FirstTag(s, i + 1, "<name>") + 3, "<start>", "</start>"),
                   FirstTimed(s, FirstTimed(s, FirstTag(s, i + 1, "<name>") + 3,
                                            "<start>", "</start>") + 3,
                              "<end>", "</end>") >> :
                 i \in { i \in DOMAIN s :
                     /\ s[i] = Tag("<event>")
                     /\ LET pName  == FirstTag(s, i + 1, "<name>")
                            pStart == FirstTimed(s, pName + 3, "<start>", "</start>")
                            pEnd   == FirstTimed(s, pStart + 3, "<end>", "</end>")
                            pClose == FirstTag(s, pEnd + 3, "</event>")
                        IN  /\ pClose <= Len(s)
                            /\ s[pName + 1].t # "tag"
                            /\ s[pName + 2] = Tag("</name>")
                            /\ \A k \in (i + 1)..pClose : s[k] # Tag("<event>") } } }

\* C17: for a format-valid text the extractor returns a non-empty sequence
\* that holds every event block the validator accepted.
C17_ExtractorCoversValidator ==
    (pc = "format_done" /\ format_score = 10) =>
        /\ get_events(content) # <<>>
        /\ ValidatorBlocks(content)
              \subseteq { get_events(content)[k] : k \in DOMAIN get_events(content) }

\* the four digits are an hour 00-23 and a minute 00-59
OnClock(d) == d[1] * 10 + d[2] <= 23 /\ d[3] * 10 + d[4] <= 59

\* C18: a time text that is no hour 00-23 and minute 00-59 is refused, so the
\* extracted events carry clock times and every time point of the sortedness
\* check and of the scorer lies in [0, 1440).
C18_TimePointsOnClock ==
    /\ Extracted =>
          \A k \in DOMAIN scheduled_events :
              OnClock(scheduled_events[k][2]) /\ OnClock(scheduled_events[k][3])
    /\ pc = "sorted_done" =>
          \A k \in DOMAIN scheduled_events_minutes :
              /\ scheduled_events_minutes[k][2] \in 0..1439
              /\ scheduled_events_minutes[k][3] \in 0..1439
    /\ pc = "done" =>
          \A k \in DOMAIN existing_events_minutes :
              /\ existing_events_minutes[k][2] \in 0..1439
              /\ existing_events_minutes[k][3] \in 0..1439

\* C19: the sorted score is 20 when two or more events were extracted and
\* each starts strictly before the next one, and 0 in every other case.
C19_SortedIffIncreasing ==
    pc = "sorted_done" =>
        /\ sorted_score \in { 0, 20 }
        /\ sorted_score = 20 <=>
              /\ Len(scheduled_events) >= 2
              /\ \A i \in 1..(Len(scheduled_events) - 1) :
                    StartOf(scheduled_events[i]) < StartOf(scheduled_events[i + 1])

\* three extracted events of which the first two rise and the last two start
\* at the same minute
C19_Witness ==
    /\ pc = "sorted_done"
    /\ Len(scheduled_events) = 3
    /\ StartOf(scheduled_events[1]) < StartOf(scheduled_events[2])
    /\ StartOf(scheduled_events[2]) = StartOf(scheduled_events[3])
    /\ sorted_score = 0

\* C20: no call raises, the division by the optimal score included, and each
\* call returns a score, whatever the completion.
C20_Total ==
    /\ pc # "raised"
    /\ pc = "format_done" => format_score \in { 0, 10 }
    /\ pc = "sorted_done" => sorted_score \in { 0, 20 }
    /\ pc = "done" => reward[2] # 0

\* a format-invalid completion that went through the division with score 0
C20_Witness ==
    /\ pc = "done"
    /\ format_reward(content) = 0
    /\ ~Rejected(existing_events, scheduled_events)
    /\ score = 0
    /\ reward = << 0, optimal_score >>

\* the extracted events start each strictly before the next, two at least
StartsRise(evs) ==
    /\ Len(evs) >= 2
    /\ \A i \in 1..(Len(evs) - 1) : StartOf(evs[i]) < StartOf(evs[i + 1])

\* C21: of one completion the format reward is 0 or 10, the sorted reward 0
\* or 20 and the score reward within [0, 70]; the three add up to 100 exactly
\* when the text passes the format check, its events rise in start time and
\* its weighted score is the optimal score of the row.
C21_RewardBounds ==
    pc = "done" =>
        LET f == format_reward(content)
            s == sorted_events_reward(content)
        IN  /\ f \in { 0, 10 }
            /\ s \in { 0, 20 }
            /\ reward[2] > 0
            /\ reward[1] >= 0
            /\ reward[1] <= 70 * reward[2]
            /\ (f + s) * reward[2] + reward[1] = 100 * reward[2]
                  <=> /\ score = optimal_score
                      /\ StartsRise(scheduled_events)
                      /\ overall_regex(content)

\* a completion with the full 100 points
C21_Witness ==
    /\ pc = "done"
    /\ format_reward(content) = 10
    /\ sorted_events_reward(content) = 20
    /\ reward[1] = 70 * reward[2]
    /\ score = optimal_score


\* a step of the scoring loop leaves the row and its optimal score as they were
RowKept ==
    pc \in { "ready", "done" } =>
        UNCHANGED << events, priority_events, optimal_score >>

SubCollection(chosen, reference) ==
    \E at \in [DOMAIN chosen -> DOMAIN reference] :
        /\ \A j, k \in DOMAIN chosen : j # k => at[j] # at[k]
        /\ \A k \in DOMAIN chosen : chosen[k] = reference[at[k]]

\* C23: the subset the DP recovers is a sub-collection of the row's events, no
\* two of its events conflict (one may end when another starts), it is listed
\* in chronological order and its weights sum to the score best[n].
C23_SelectedSubset ==
    pc = "recovered" =>
        /\ SubCollection(selected, events)
        /\ \A j, k \in DOMAIN selected :
               j < k => /\ ~Conflict(selected[j], selected[k])
                        /\ StartOf(selected[j]) < StartOf(selected[k])
                        /\ EndOf(selected[j]) <= StartOf(selected[k])
        /\ SeqWeight(selected, priority_events) = optimal_score
        /\ optimal_score = best[Len(events) + 1]

\* a subset of two events that meet, recovered from a row of three events
\* that holds a conflicting pair
C23_Witness ==
    /\ pc = "recovered"
    /\ Len(events) = 3
    /\ Len(selected) = 2
    /\ EndOf(selected[1]) = StartOf(selected[2])
    /\ \E j, k \in DOMAIN events : j # k /\ Conflict(events[j], events[k])

\* C24: the DP fails on an empty row and hands over no score for it, so the
\* optimal score of a row that is scored is a positive integer.
C24_EmptyInputFails ==
    /\ events = <<>> => (pc \in { "sort", "failed" } /\ optimal_score = 0)
    /\ pc = "failed" => events = <<>>
    /\ pc = "ready" => optimal_score \in Nat \ { 0 }

\* the DP has failed on the empty row
C24_Witness ==
    /\ pc = "failed"
    /\ events = <<>>


\* the completions of at most two well-formed blocks of events of the row, in
\* any layout
PlainDrafts == Layouts \X SeqsUpTo({ "prompt" } \X Reference, 2)

\* a completion the row can be given whose format reward is the given one and
\* whose weighted score is positive, or is zero, as asked
Combination(format, positive) ==
    \E draft \in PlainDrafts :
        LET text == Render(draft[1], draft[2])
        IN  /\ format_reward(text) = format
            /\ \E weighted \in WeightedScores(text, events, priority_events) :
                   (weighted > 0) <=> positive

\* C25: format validity and the weighted score are independent: among the
\* completions a row can be given there is one for each of the four
\* combinations of a matching or non-matching format with a zero or positive
\* weighted score.
C25_IndependentSignals ==
    pc = "ready" =>
        \A format \in { 0, 10 }, positive \in BOOLEAN : Combination(format, positive)

\* a text the overall pattern rejects has been scored above zero
C25_Witness ==
    /\ pc = "done"
    /\ format_reward(content) = 0
    /\ score > 0
    /\ reward[1] > 0


\* the candidate lists, each once and in chronological order, the events of a
\* conflict-free choice among the row's events whose weight is the best one
ListsOptimum ==
    /\ pc = "done"
    /\ SubCollection(scheduled_events, events)
    /\ \A j, k \in DOMAIN scheduled_events :
           j < k => /\ ~Conflict(scheduled_events[j], scheduled_events[k])
                    /\ StartOf(scheduled_events[j]) < StartOf(scheduled_events[k])
    /\ SeqWeight(scheduled_events, priority_events)
           = MaxIndependentWeight(events, priority_events)

\* C26: a candidate that lists exactly the events of an optimal solution of
\* the row, in chronological order, scores the optimal score and gets the full
\* score reward of 70, also when the optimum is a single event or holds events
\* that meet.
C26_OptimumScoresFull ==
    ListsOptimum => /\ score = optimal_score
                    /\ reward[1] = 70 * reward[2]


\* a reference event is extracted twice
ListedTwice ==
    \E j, k \in DOMAIN scheduled_events :
        /\ j < k
        /\ scheduled_events[j] = scheduled_events[k]
        /\ scheduled_events[j] \in Reference

\* C27: a candidate that lists one reference event twice scores 0 whatever
\* else it lists: the existing events are a set, so they are fewer than the
\* extracted events, as when a listed event does not exist.
C27_DuplicateScoresZero ==
    (pc = "done" /\ ListedTwice) =>
        /\ Cardinality(existing_events) < Len(scheduled_events)
        /\ score = 0
        /\ reward[1] = 0

\* a reference event listed twice beside another one that lies apart from it,
\* and nothing listed that the row does not hold
C27_Witness ==
    /\ pc = "done"
    /\ ListedTwice
    /\ Listed \subseteq Reference
    /\ \E a, b \in Listed : a # b /\ ~Conflict(a, b) /\ ~Touching(a, b)
    /\ score = 0


\* the listings that hold the event blocks of listing in another order, or the same
Reorderings(listing) ==
    { [k \in DOMAIN listing |-> listing[at[k]]] : at \in Orderings(DOMAIN listing) }

\* C28: the weighted score does not depend on the order in which the
\* candidate lists its events: the text that holds the same event blocks in
\* any other order gets the reward this one got.
C28_OrderIndependent ==
    pc = "done" =>
        \A listing \in Reorderings(scheduled_events) :
            \A weighted \in WeightedScores(ScheduleText(listing), events,
                                            priority_events) :
                reward[1] * optimal_score = 70 * weighted * reward[2]

\* a candidate scored above zero whose listing is in the order of its start
\* times, while the same blocks in another order are not
C28_Witness ==
    /\ pc = "done"
    /\ reward[1] > 0
    /\ sorted_events_reward(content) = 20
    /\ \E listing \in Reorderings(scheduled_events) :
           sorted_events_reward(ScheduleText(listing)) = 0


\* the listing with every name and every end time replaced, the start times
\* left as they are
Recast(listing, name, end) ==
    [k \in DOMAIN listing |-> << name, listing[k][2], end >>]

\* a name no row holds
NoSuchName == "Z"

\* a name of the row with an end that makes every pair overlap, and a name no
\* row holds with an end that makes every event end before it starts
Recasts == { << "A", minutes_to_time(1439) >>, << NoSuchName, minutes_to_time(0) >> }

\* C29: the sorted score is settled by the start times of the extracted
\* events in text order alone: with the names replaced, by one no row holds
\* too, and with the end times replaced, so that events overlap or end before
\* they start, the score is the same; it is 20 for rising starts of events
\* that do not exist or that overlap, and the weighted score of a text that
\* lists an event that does not exist is 0 all the same.
C29_SortedByStartsAlone ==
    pc = "sorted_done" =>
        /\ \A to \in Recasts :
               sorted_events_reward(ScheduleText(Recast(scheduled_events, to[1], to[2])))
                   = sorted_score
        /\ ( /\ StartsRise(scheduled_events)
             /\ \/ Listed \ Reference # {}
                \/ \E a, b \in Listed : a # b /\ Conflict(a, b) )
           => sorted_score = 20
        /\ ( /\ StartsRise(scheduled_events)
             /\ Listed \ Reference # {} )
           => WeightedScores(content, events, priority_events) = { 0 }

\* the sorted score of 20 given to two reference events that overlap, and
\* whose weighted score is 0
C29_Witness ==
    /\ pc = "sorted_done"
    /\ sorted_score = 20
    /\ Listed \subseteq Reference
    /\ \E a, b \in Listed : a # b /\ Conflict(a, b)
    /\ WeightedScores(content, events, priority_events) = { 0 }


\* the hour is one of 00..23 and the minute one of 00..59
StrictTime(digits) ==
    /\ digits[1] * 10 + digits[2] <= 23
    /\ digits[3] * 10 + digits[4] <= 59

\* C30: on the minutes of a day and the strict time texts the two conversions
\* are inverse: converting the text formatted from m gives m, and formatting
\* the minutes converted from a strict text gives the text.
C30_Inverse ==
    /\ pc = "formatted" =>
          /\ time_text \in TimeTexts
          /\ StrictTime(time_text)
          /\ time_to_minutes(time_text) = minute_count
    /\ (pc = "converted" /\ StrictTime(time_text)) =>
          /\ minute_count \in ValidMinutes
          /\ minutes_to_time(minute_count) = time_text

\* 09:05, whose hour and minute both need their leading zero, converted
C30_Witness ==
    /\ pc = "converted"
    /\ time_text = << 0, 9, 0, 5 >>
    /\ minute_count = 545

============================================================================
